---- MODULE Spec2Model ----
(***************************************************************************)
(* Model of the numerical core of MiC_Object_Detection:                    *)
(*   src/src/detection/detection_utils.py   non_max_suppression, IOU       *)
(*   src/src/depth_analysis/*.py            dimensions, roughness, preproc *)
(*   src/main.py, src/src/visualization/routes.py   per-detection loop     *)
(*                                                                         *)
(* Floating point values are modelled as exact quotients <<n, d>>.         *)
(* d = 0 with n = 0 is the IEEE value nan (0/0), for which every ordered   *)
(* comparison is false.                                                    *)
(***************************************************************************)
EXTENDS Integers, Sequences, FiniteSets, TLC

\* ------------------------------------------------------------------ bounds
\* Largest number of candidate boxes handed to non_max_suppression.
MaxBoxes == 3

\* Boxes (x1, y1, x2, y2) the inputs are drawn from:
\*   the full 2x2 square, its lower and upper halves (IOU 1/2 with the square,
\*   zero overlap with each other), a box to the right that only touches them,
\*   and a zero-area point.
BoxUniverse ==
    { <<0, 0, 2, 2>>, <<0, 0, 2, 1>>, <<0, 1, 2, 2>>,
      <<2, 0, 3, 2>>, <<1, 1, 1, 1>> }

\* The inputs of the fair specification: a box and a point, whose IOU values
\* are 1 (box, box), 0 (box, point) and undefined (point, point).
TerminationBoxes == { <<0, 0, 2, 2>>, <<1, 1, 1, 1>> }

\* Confidence scores (only their order matters to argsort).
ScoreValues == {1, 2}

\* iou_threshold values, as quotients: -1/2, 0, 1/2, 1.
Thresholds == { <<-1, 2>>, <<0, 1>>, <<1, 2>>, <<1, 1>> }

TerminationThresholds == { <<1, 2>> }

\* ----------------------------------------------------------- float helpers
Max(a, b) == IF a >= b THEN a ELSE b
Min(a, b) == IF a <= b THEN a ELSE b

\* 0/0
IsNaN(q) == q[2] = 0 /\ q[1] = 0

\* q < t for a quotient q = n/d and a finite t = tn/td with td > 0, as IEEE
\* compares them: false for nan, +inf < t false, -inf < t true.
FloatLess(q, t) ==
    IF q[2] > 0 THEN q[1] * t[2] < t[1] * q[2]
    ELSE IF q[2] < 0 THEN q[1] * t[2] > t[1] * q[2]
    ELSE q[1] < 0

\* q >= t, false for nan.
FloatGeq(q, t) ==
    IF q[2] > 0 THEN q[1] * t[2] >= t[1] * q[2]
    ELSE IF q[2] < 0 THEN q[1] * t[2] <= t[1] * q[2]
    ELSE q[1] > 0

\* ------------------------------------------------------------------- state
VARIABLES
    boxes,          \* non_max_suppression: boxes, (n, 4) array as a sequence
    scores,         \* non_max_suppression: scores, (n,)
    iou_threshold,  \* non_max_suppression: iou_threshold
    order,          \* the value of np.argsort(scores)[::-1] (line 12)
    indices,        \* local indices
    keep,           \* local keep
    iou,            \* local iou: the last array compute_iou returned
    iou_call,       \* the arguments (box, boxes) of that compute_iou call
    nms_pc,         \* "start" | "loop" | "done"
    depth_img,      \* estimators: the depth map, a sequence of rows
    bbox,           \* estimators: [x1, y1, x2, y2]
    dim_result,     \* what calculate_dimensions returned
    rough_result,   \* what estimate_roughness returned or raised
    caller,         \* "main" (main.py) or "predict" (routes.py)
    raw_depth,      \* what depth_img_read returned
    detections,     \* the list detector.detect returned
    p_depth_img,    \* the callers' depth_img after preprocess_depth_img
    depth_normalized, \* the callers' depth_normalized (main: _)
    det_idx,        \* position of the for loop in detections, from 1
    results,        \* predict: results; main: the reports printed so far
    calls,          \* the estimator calls made: function, depth map, box
    depth_file,     \* predict: the image written to depth_result_path
    pipe_pc         \* "read" | "loop" | "raised" | "done"

nms_vars == <<boxes, scores, iou_threshold, order, indices, keep, iou, iou_call, nms_pc>>

depth_vars == <<depth_img, bbox, dim_result, rough_result>>

pipe_vars == <<caller, raw_depth, detections, p_depth_img, depth_normalized,
               det_idx, results, calls, depth_file, pipe_pc>>

vars == <<nms_vars, depth_vars, pipe_vars>>

\* ------------------------------------------------------------ compute_iou
\* compute_iou_elem with line 40 reading boxes[:, 0] for boxes[:, 2].
compute_iou_bad_x2(box, b) ==
    LET x1 == Max(box[1], b[1])
        y1 == Max(box[2], b[2])
        x2 == Min(box[3], b[1])
        y2 == Min(box[4], b[4])
        intersection == Max(0, x2 - x1) * Max(0, y2 - y1)
        area_box == (box[3] - box[1]) * (box[4] - box[2])
        area_boxes == (b[3] - b[1]) * (b[4] - b[2])
        union == area_box + area_boxes - intersection
    IN  <<intersection, union>>

\* One element of the array compute_iou returns: box against one row b of
\* boxes.
compute_iou_elem(box, b) ==
    LET x1 == Max(box[1], b[1])
        y1 == Max(box[2], b[2])
        x2 == Min(box[3], b[3])
        y2 == Min(box[4], b[4])
        intersection == Max(0, x2 - x1) * Max(0, y2 - y1)
        area_box == (box[3] - box[1]) * (box[4] - box[2])
        area_boxes == (b[3] - b[1]) * (b[4] - b[2])
        union == area_box + area_boxes - intersection
    IN  <<intersection, union>>   \* intersection / union, not guarded

compute_iou(box, bxs) == [k \in 1..Len(bxs) |-> compute_iou_elem(box, bxs[k])]

\* ---------------------------------------------------- non_max_suppression
\* s[k] for the positions k of s where mask[k] holds: s[mask].
RECURSIVE BoolIndex(_, _)
BoolIndex(s, mask) ==
    IF s = <<>> THEN <<>>
    ELSE (IF Head(mask) THEN <<Head(s)>> ELSE <<>>) \o BoolIndex(Tail(s), Tail(mask))

\* iou >= iou_threshold: the mask of line 25 turned around.
NotBelow(q, thr) == FloatGeq(q, thr)

\* iou < iou_threshold, one element of the mask of line 25.
Below(q, thr) == FloatLess(q, thr)

\* order is a permutation of the indices 1..n.
IsPermutation(p, n) ==
    /\ Len(p) = n
    /\ \A i \in 1..n : \E k \in 1..n : p[k] = i

\* np.argsort(scores) without the reversal: lowest score first.
ArgsortAscending(p, sc) ==
    /\ IsPermutation(p, Len(sc))
    /\ \A a, b \in 1..Len(sc) : a < b => sc[p[a]] <= sc[p[b]]

\* np.argsort(scores)[::-1]: the indices by score, highest first.  The default
\* sort kind is not stable, so the order among equal scores is any.
ArgsortReversed(p, sc) ==
    /\ IsPermutation(p, Len(sc))
    /\ \A a, b \in 1..Len(sc) : a < b => sc[p[a]] >= sc[p[b]]

SeqsUpTo(S, n) == UNION { [1..m -> S] : m \in 0..n }

\* no call made yet
NoResult == [kind |-> "none"]

DepthIdle ==
    /\ depth_img = <<>>
    /\ bbox = <<0, 0, 0, 0>>
    /\ dim_result = NoResult
    /\ rough_result = NoResult

PipeIdle ==
    /\ caller = "none"
    /\ raw_depth = <<>>
    /\ detections = <<>>
    /\ p_depth_img = <<>>
    /\ depth_normalized = <<>>
    /\ det_idx = 0
    /\ results = <<>>
    /\ calls = <<>>
    /\ depth_file = <<>>
    /\ pipe_pc = "idle"

NmsStart(universe, thresholds) ==
    /\ DepthIdle
    /\ PipeIdle
    /\ boxes \in SeqsUpTo(universe, MaxBoxes)
    /\ scores \in [1..Len(boxes) -> ScoreValues]
    /\ iou_threshold \in thresholds
    /\ order = <<>>
    /\ indices = <<>>
    /\ keep = <<>>
    /\ iou = <<>>
    /\ iou_call = <<>>
    /\ nms_pc = "start"

\* line 12-13
Argsort ==
    /\ nms_pc = "start"
    /\ \E p \in [1..Len(scores) -> 1..Len(scores)] :
          /\ ArgsortReversed(p, scores)
          /\ indices' = p
          /\ order' = p
    /\ keep' = <<>>
    /\ nms_pc' = "loop"
    /\ UNCHANGED <<boxes, scores, iou_threshold, iou, iou_call>>
    /\ UNCHANGED <<depth_vars, pipe_vars>>

\* One pass of the while body; at len(indices) == 1 the loop is left when
\* leaves holds and entered again when it does not.
WhileBody(leaves) ==
    /\ nms_pc = "loop"
    /\ Len(indices) > 0
    /\ LET current == indices[1]
       IN  /\ keep' = Append(keep, current)
           /\ IF Len(indices) = 1
              THEN /\ nms_pc' = IF leaves THEN "done" ELSE "loop"
                   /\ UNCHANGED <<indices, iou, iou_call>>
              ELSE LET rest == Tail(indices)
                       bxs == [k \in 1..Len(rest) |-> boxes[rest[k]]]
                       res == compute_iou(boxes[current], bxs)
                   IN  /\ iou' = res
                       /\ iou_call' = <<boxes[current], bxs>>
                       /\ indices' = BoolIndex(rest,
                              [k \in 1..Len(rest) |-> Below(res[k], iou_threshold)])
                       /\ nms_pc' = "loop"
    /\ UNCHANGED <<boxes, scores, iou_threshold, order>>
    /\ UNCHANGED <<depth_vars, pipe_vars>>

\* the while body with continue for break
NmsIterationContinue == WhileBody(FALSE)

\* lines 15-25: one pass of the while body, with its break
NmsIteration == WhileBody(TRUE)

\* lines 15, 27: the while condition fails, return keep
NmsReturn ==
    /\ nms_pc = "loop"
    /\ Len(indices) = 0
    /\ nms_pc' = "done"
    /\ UNCHANGED <<boxes, scores, iou_threshold, order, indices, keep, iou, iou_call>>
    /\ UNCHANGED <<depth_vars, pipe_vars>>

NextNMS == Argsort \/ NmsIteration \/ NmsReturn

InitNMS == NmsStart(BoxUniverse, Thresholds)

SpecNMS == InitNMS /\ [][NextNMS]_vars

InitTermination == NmsStart(TerminationBoxes, TerminationThresholds)

\* The interpreter runs the function to its return: the loop is never
\* abandoned half way.
FairSpecNMS == InitTermination /\ [][NextNMS]_vars /\ WF_vars(NextNMS)

\* ------------------------------------------------------ depth estimators
\* Width of the widest generated depth map.
MaxW == 2

\* Heights of the generated depth maps.
MapHeights == {1, 2}

\* Depth samples of the generated maps: 0 is "no reading".
DepthValues == {0, 1, 3}

\* DimensionCalculator.__init__: depth_scale = 0.001
depth_scale == <<1, 1000>>

\* calculate_dimensions: focal lengths
fx == 600
fy == 600

\* estimate_roughness: window_size = 5
window_size == 5

RECURSIVE SumSeq(_)
SumSeq(s) == IF s = <<>> THEN 0 ELSE Head(s) + SumSeq(Tail(s))

RECURSIVE Gcd(_, _)
Gcd(a, b) == IF b = 0 THEN a ELSE Gcd(b, a % b)

Abs(a) == IF a < 0 THEN -a ELSE a

\* A quotient in lowest terms with a positive denominator; nan and the
\* infinities (d = 0) are left as they are.
Quot(n, d) ==
    IF d = 0 THEN <<n, 0>>
    ELSE LET g == Gcd(Abs(n), Abs(d))
             sg == IF d < 0 THEN -1 ELSE 1
         IN  <<sg * (n \div g), sg * (d \div g)>>

Height(img) == Len(img)
Width(img) == IF img = <<>> THEN 0 ELSE Len(img[1])

\* img[y1:y2, x1:x2] for 0 <= y1 <= y2 <= height and 0 <= x1 <= x2 <= width
Slice(img, y1, y2, x1, x2) ==
    [r \in 1..(y2 - y1) |-> [c \in 1..(x2 - x1) |-> img[y1 + r][x1 + c]]]

\* a 2-D array in row-major order
RECURSIVE Flatten(_)
Flatten(a) == IF a = <<>> THEN <<>> ELSE Head(a) \o Flatten(Tail(a))

RECURSIVE SelectPositive(_)
SelectPositive(s) ==
    IF s = <<>> THEN <<>>
    ELSE (IF Head(s) > 0 THEN <<Head(s)>> ELSE <<>>) \o SelectPositive(Tail(s))

RECURSIVE SelectNonNegative(_)
SelectNonNegative(s) ==
    IF s = <<>> THEN <<>>
    ELSE (IF Head(s) >= 0 THEN <<Head(s)>> ELSE <<>>) \o SelectNonNegative(Tail(s))

\* roi[roi >= 0]: the filter of line 23 letting zeros through
ValidSamplesNonNegative(roi) == SelectNonNegative(Flatten(roi))

\* roi[roi > 0]: the samples above zero, flattened in row-major order
ValidSamples(roi) == SelectPositive(Flatten(roi))

\* np.mean of a 1-D array: nan (0/0) for the empty array
NpMean(s) == Quot(SumSeq(s), Len(s))

\* the product and the quotient of floats
QMul(a, b) == Quot(a[1] * b[1], a[2] * b[2])
QScale(k, a) == Quot(k * a[1], a[2])
QDivInt(a, k) == Quot(a[1], a[2] * k)

\* calculate_dimensions without the early return of lines 25-26
DimensionsUnguarded(img, bb) ==
    LET x1 == bb[1]  y1 == bb[2]  x2 == bb[3]  y2 == bb[4]
        roi_depth == Slice(img, y1, y2, x1, x2)
        valid_depth == ValidSamples(roi_depth)
        avg_depth == QMul(NpMean(valid_depth), depth_scale)
        pixel_width == x2 - x1
        real_width == QDivInt(QScale(pixel_width, avg_depth), fx)
        pixel_height == y2 - y1
        real_height == QDivInt(QScale(pixel_height, avg_depth), fy)
    IN  <<real_width, real_height, avg_depth>>

\* DimensionCalculator.calculate_dimensions
calculate_dimensions(img, bb) ==
    LET x1 == bb[1]  y1 == bb[2]  x2 == bb[3]  y2 == bb[4]
        roi_depth == Slice(img, y1, y2, x1, x2)
        valid_depth == ValidSamples(roi_depth)
    IN  IF Len(valid_depth) = 0
        THEN << <<0, 1>>, <<0, 1>>, <<0, 1>> >>
        ELSE LET avg_depth == QMul(NpMean(valid_depth), depth_scale)
                 pixel_width == x2 - x1
                 real_width == QDivInt(QScale(pixel_width, avg_depth), fx)
                 pixel_height == y2 - y1
                 real_height == QDivInt(QScale(pixel_height, avg_depth), fy)
             IN  <<real_width, real_height, avg_depth>>

\* f[1], ..., f[n] as a sequence whose elements are computed once
RECURSIVE SeqOf(_, _)
SeqOf(f, n) == IF n = 0 THEN <<>> ELSE Append(SeqOf(f, n - 1), f[n])

\* an h x w array whose elements are computed once
Array(f, h, w) == SeqOf([r \in 1..h |-> SeqOf(f[r], w)], h)

\* cv2.filter2D's default border, BORDER_REFLECT_101, for a 0-based
\* coordinate p of an axis of length n
RECURSIVE Reflect101(_, _)
Reflect101(p, n) ==
    IF n = 1 THEN 0
    ELSE IF p < 0 THEN Reflect101(-p, n)
    ELSE IF p >= n THEN Reflect101(2 * n - 2 - p, n)
    ELSE p

\* The k*k window around (r, c) of grid g, 1-based, as a sequence of samples;
\* the anchor is the kernel centre.
Window(g, r, c, k) ==
    LET h == Len(g)
        w == Len(g[1])
        a == k \div 2
    IN  [t \in 1..(k * k) |->
            g[Reflect101(r - 1 + ((t - 1) \div k) - a, h) + 1]
             [Reflect101(c - 1 + ((t - 1) % k) - a, w) + 1]]

\* lines 27-32 on a grid of valid samples, in real arithmetic (a depth map of
\* a float dtype, rounding left aside).  With kernel = ones / k^2:
\*   mean = S / k^2 where S is the window sum,
\*   (roi - mean)^2 = D^2 / k^4 where D = k^2 * roi - S,
\*   var = (window sum of D^2) / k^6, roughness = np.mean(var).
LocalVarianceMean(g, k) ==
    LET h == Len(g)
        w == Len(g[1])
        D == Array([r \in 1..h |-> [c \in 1..w |->
                 k * k * g[r][c] - SumSeq(Window(g, r, c, k))]], h, w)
        Dsq == Array([r \in 1..h |-> [c \in 1..w |-> D[r][c] * D[r][c]]], h, w)
        varnum == Array([r \in 1..h |-> [c \in 1..w |->
                      SumSeq(Window(Dsq, r, c, k))]], h, w)
    IN  Quot(SumSeq(Flatten(varnum)), k * k * k * k * k * k * h * w)

\* RoughnessEstimator.estimate_roughness.  reshape raises ValueError when
\* the number of samples kept is not (y2 - y1) * (x2 - x1); when it is, the
\* reshaped grid is the region itself.
estimate_roughness(img, bb) ==
    LET x1 == bb[1]  y1 == bb[2]  x2 == bb[3]  y2 == bb[4]
        roi_depth == ValidSamples(Slice(img, y1, y2, x1, x2))
    IN  IF Len(roi_depth) = 0
        THEN [kind |-> "return", value |-> <<0, 1>>]
        ELSE IF Len(roi_depth) # (y2 - y1) * (x2 - x1)
        THEN [kind |-> "raise", exc |-> "ValueError"]
        ELSE [kind |-> "return",
              value |-> LocalVarianceMean(Slice(img, y1, y2, x1, x2), window_size)]

\* the boxes inside a map, empty ones included
BoxesInside(img) ==
    { <<x1, y1, x2, y2>> \in
          (0..Width(img)) \X (0..Height(img)) \X (0..Width(img)) \X (0..Height(img)) :
          x1 <= x2 /\ y1 <= y2 }

GeneratedMaps ==
    UNION { [1..h -> [1..w -> DepthValues]] : h \in MapHeights, w \in 1..MaxW }

\* the 10 x 10 map of 1000 of the documented scenario
UniformMap == [r \in 1..10 |-> [c \in 1..10 |-> 1000]]

\* maps with negative samples
NegativeMaps == { << <<-1, 3>>, <<1, -2>> >>, << <<-1, 0>>, <<-2, -1>> >> }

DepthInputs ==
    UNION { { <<m, b>> : b \in BoxesInside(m) } : m \in GeneratedMaps \cup NegativeMaps }
    \cup { <<UniformMap, <<0, 0, 10, 10>> >>, <<UniformMap, <<2, 3, 7, 10>> >> }

NmsIdle ==
    /\ boxes = <<>>
    /\ scores = <<>>
    /\ iou_threshold = <<1, 2>>
    /\ order = <<>>
    /\ indices = <<>>
    /\ keep = <<>>
    /\ iou = <<>>
    /\ iou_call = <<>>
    /\ nms_pc = "idle"

InitDepth ==
    /\ NmsIdle
    /\ PipeIdle
    /\ \E in \in DepthInputs :
          /\ depth_img = in[1]
          /\ bbox = in[2]
    /\ dim_result = NoResult
    /\ rough_result = NoResult

CalculateDimensions ==
    /\ dim_result.kind = "none"
    /\ depth_img # <<>>
    /\ dim_result' = [kind |-> "return", value |-> calculate_dimensions(depth_img, bbox)]
    /\ UNCHANGED <<depth_img, bbox, rough_result>>
    /\ UNCHANGED <<nms_vars, pipe_vars>>

EstimateRoughness ==
    /\ rough_result.kind = "none"
    /\ depth_img # <<>>
    /\ rough_result' = estimate_roughness(depth_img, bbox)
    /\ UNCHANGED <<depth_img, bbox, dim_result>>
    /\ UNCHANGED <<nms_vars, pipe_vars>>

NextDepth == CalculateDimensions \/ EstimateRoughness

SpecDepth == InitDepth /\ [][NextDepth]_vars

\* ------------------------------------------- the per-detection pipeline
\* Largest number of detections the detector returns.
MaxDet == 2

\* Raw 2 x 2 depth maps; 0 is "no reading".
RawValues == {0, 2, 7}

RawMaps == [1..2 -> [1..2 -> RawValues]]

\* What detect returns is drawn from these records (class_id left out: the
\* loops do not read it).
DetectionUniverse ==
    { [bbox |-> <<0, 0, 2, 2>>, class_name |-> "wall",   confidence |-> <<9, 10>>],
      [bbox |-> <<0, 0, 1, 2>>, class_name |-> "column", confidence |-> <<3, 4>>],
      [bbox |-> <<1, 0, 2, 1>>, class_name |-> "beam",   confidence |-> <<5, 8>>] }

Clamp(p, n) == IF p < 0 THEN 0 ELSE IF p >= n THEN n - 1 ELSE p

\* the middle one of nine samples
Median9(s) ==
    CHOOSE v \in { s[i] : i \in 1..9 } :
        /\ Cardinality({ i \in 1..9 : s[i] < v }) <= 4
        /\ Cardinality({ i \in 1..9 : s[i] <= v }) >= 5

\* cv2.medianBlur(img, 3): the median of the 3 x 3 neighbourhood, the border
\* replicated
medianBlur3(img) ==
    LET h == Len(img)
        w == Len(img[1])
    IN  Array([r \in 1..h |-> [c \in 1..w |->
            Median9([t \in 1..9 |->
                img[Clamp(r - 1 + ((t - 1) \div 3) - 1, h) + 1]
                   [Clamp(c - 1 + ((t - 1) % 3) - 1, w) + 1]])]], h, w)

\* the integer nearest to n / d (n >= 0, d > 0), halves to the even one
RoundHalfEven(n, d) ==
    LET fl == n \div d
        rem == n % d
    IN  IF 2 * rem < d THEN fl
        ELSE IF 2 * rem > d THEN fl + 1
        ELSE IF fl % 2 = 0 THEN fl ELSE fl + 1

MaxOf(S) == CHOOSE m \in S : \A x \in S : x <= m
MinOf(S) == CHOOSE m \in S : \A x \in S : m <= x

\* cv2.normalize(img, None, 0, 255, cv2.NORM_MINMAX, dtype=cv2.CV_8U): the
\* range [min, max] onto [0, 255]; a map of one value goes to 0
normalizeMinMax(img) ==
    LET h == Len(img)
        w == Len(img[1])
        vals == { img[r][c] : r \in 1..h, c \in 1..w }
        lo == MinOf(vals)
        hi == MaxOf(vals)
    IN  Array([r \in 1..h |-> [c \in 1..w |->
            IF hi = lo THEN 0
            ELSE RoundHalfEven((img[r][c] - lo) * 255, hi - lo)]], h, w)

\* preprocess_depth_img: (processed depth image, normalized depth image)
preprocess_depth_img(img) ==
    LET blurred == medianBlur3(img)
    IN  <<blurred, normalizeMinMax(blurred)>>

\* round(x, nd) and the format :.{nd}f, for x >= 0 and m = 10^nd
RoundTo(q, m) == Quot(RoundHalfEven(q[1] * m, q[2]), m)

\* what the loop body makes of a detection and its measurements:
\* routes.py 66-73 (the dict appended), main.py 44-47 (the lines printed)
Report(who, i, det, dims, roughness) ==
    IF who = "predict"
    THEN [class_name |-> det.class_name,
          confidence |-> RoundTo(det.confidence, 100),
          width |-> RoundTo(dims[1], 1000),
          height |-> RoundTo(dims[2], 1000),
          depth |-> RoundTo(dims[3], 1000),
          roughness |-> RoundTo(roughness, 1000)]
    ELSE [object |-> i,
          class_name |-> det.class_name,
          confidence |-> RoundTo(det.confidence, 100),
          width |-> RoundTo(dims[1], 1000),
          height |-> RoundTo(dims[2], 1000),
          depth |-> RoundTo(dims[3], 1000),
          roughness |-> RoundTo(roughness, 1000)]

InitPipeline ==
    /\ NmsIdle
    /\ DepthIdle
    /\ caller \in {"main", "predict"}
    /\ raw_depth \in RawMaps
    /\ detections \in SeqsUpTo(DetectionUniverse, MaxDet)
    /\ p_depth_img = <<>>
    /\ depth_normalized = <<>>
    /\ det_idx = 0
    /\ results = <<>>
    /\ calls = <<>>
    /\ depth_file = <<>>
    /\ pipe_pc = "read"

\* main.py 26-27, routes.py 54-58
Preprocess ==
    /\ pipe_pc = "read"
    /\ LET out == preprocess_depth_img(raw_depth)
       IN  /\ p_depth_img' = out[1]
           /\ depth_normalized' = out[2]
    /\ results' = <<>>
    /\ det_idx' = 1
    /\ pipe_pc' = "loop"
    /\ UNCHANGED <<caller, raw_depth, detections, calls, depth_file>>
    /\ UNCHANGED <<nms_vars, depth_vars>>

\* One pass of the for loop, measuring on dim_img and rough_img.  An
\* exception of estimate_roughness leaves the loop and the caller.
Analyze(dim_img, rough_img) ==
    /\ pipe_pc = "loop"
    /\ det_idx <= Len(detections)
    /\ \E det \in {detections[det_idx]} :
       \E box \in {det.bbox} :
       \E dims \in {calculate_dimensions(dim_img, box)} :
       \E rough \in {estimate_roughness(rough_img, box)} :
           /\ calls' = calls \o
                  << [fn |-> "calculate_dimensions", img |-> dim_img, bbox |-> box],
                     [fn |-> "estimate_roughness", img |-> rough_img, bbox |-> box] >>
           /\ IF rough.kind = "raise"
              THEN /\ pipe_pc' = "raised"
                   /\ UNCHANGED <<results, det_idx>>
              ELSE /\ results' = Append(results,
                                        Report(caller, det_idx, det, dims, rough.value))
                   /\ det_idx' = det_idx + 1
                   /\ pipe_pc' = "loop"
    /\ UNCHANGED <<caller, raw_depth, detections, p_depth_img, depth_normalized,
                   depth_file>>
    /\ UNCHANGED <<nms_vars, depth_vars>>

AnalyzeOnNormalized == Analyze(p_depth_img, depth_normalized)

\* main.py 34-48, routes.py 59-73
AnalyzeDetection == Analyze(p_depth_img, p_depth_img)

\* main.py 50-53, routes.py 75-92: the loop is over; predict writes the
\* normalized image to the depth result file
Finish ==
    /\ pipe_pc = "loop"
    /\ det_idx > Len(detections)
    /\ depth_file' = IF caller = "predict" THEN depth_normalized ELSE depth_file
    /\ pipe_pc' = "done"
    /\ UNCHANGED <<caller, raw_depth, detections, p_depth_img, depth_normalized,
                   det_idx, results, calls>>
    /\ UNCHANGED <<nms_vars, depth_vars>>

NextPipeline == Preprocess \/ AnalyzeDetection \/ Finish

SpecPipeline == InitPipeline /\ [][NextPipeline]_vars

\* ------------------------------------------------ reference notions (NMS)
\* The unit cells a box covers, and IOU as a ratio of cell counts.
Cells(b) == { <<x, y>> \in (b[1]..(b[3] - 1)) \X (b[2]..(b[4] - 1)) : TRUE }

RefIntersection(a, b) == Cardinality(Cells(a) \cap Cells(b))

RefUnion(a, b) == Cardinality(Cells(a) \cup Cells(b))

RefIOU(a, b) == <<RefIntersection(a, b), RefUnion(a, b)>>

WellFormed(b) == b[1] < b[3] /\ b[2] < b[4]

Kept == { keep[k] : k \in 1..Len(keep) }

PosIn(s, i) == CHOOSE k \in 1..Len(s) : s[k] = i

AllWellFormed == \A i \in 1..Len(boxes) : WellFormed(boxes[i])

PairwiseZeroOverlap ==
    \A i, j \in 1..Len(boxes) :
        i # j => RefIntersection(boxes[i], boxes[j]) = 0

ThresholdPositive == iou_threshold[1] > 0

\* ------------------------------------------------------ properties (NMS)
\* C1: a remaining candidate has IOU strictly below iou_threshold with the
\* box just added to keep; on return every two distinct kept indices have
\* IOU < iou_threshold, and every index not kept has IOU >= iou_threshold
\* with a kept index that precedes it in score order.
C1_StrictSurvivalAndSuppression ==
    /\ (nms_pc = "loop" /\ keep # <<>>) =>
           \A k \in 1..Len(indices) :
               FloatLess(RefIOU(boxes[keep[Len(keep)]], boxes[indices[k]]),
                         iou_threshold)
    /\ nms_pc = "done" =>
           /\ \A i, j \in Kept :
                  i # j => FloatLess(RefIOU(boxes[i], boxes[j]), iou_threshold)
           /\ \A j \in (1..Len(boxes)) \ Kept :
                  \E i \in Kept :
                      /\ PosIn(order, i) < PosIn(order, j)
                      /\ FloatGeq(RefIOU(boxes[i], boxes[j]), iou_threshold)

\* C2 as stated: well-formed boxes with pairwise zero overlap are all
\* returned, each once, whatever the threshold.
C2_DisjointAllKeptAnyThreshold ==
    (nms_pc = "done" /\ AllWellFormed /\ PairwiseZeroOverlap) =>
        /\ Len(keep) = Len(boxes)
        /\ Kept = 1..Len(boxes)

\* C2 amended: the same for every iou_threshold > 0.
C2_DisjointAllKeptPositiveThreshold ==
    (nms_pc = "done" /\ AllWellFormed /\ PairwiseZeroOverlap /\ ThresholdPositive) =>
        /\ Len(keep) = Len(boxes)
        /\ Kept = 1..Len(boxes)

C2_Witness ==
    /\ nms_pc = "done"
    /\ Len(boxes) = 3
    /\ AllWellFormed /\ PairwiseZeroOverlap /\ ThresholdPositive
    /\ Len(keep) = 3

TwoIdenticalSameScore ==
    /\ Len(boxes) = 2
    /\ boxes[1] = boxes[2]
    /\ WellFormed(boxes[1])
    /\ scores[1] = scores[2]
    /\ iou_threshold = <<1, 2>>

\* C3: two identical well-formed boxes with the same score and
\* iou_threshold = 0.5 give exactly one index.
C3_IdenticalPairKeepsOne ==
    (nms_pc = "done" /\ TwoIdenticalSameScore) => Len(keep) = 1

C3_Witness == nms_pc = "done" /\ TwoIdenticalSameScore /\ Len(keep) = 1

\* C4: every element of the array compute_iou returned is
\* intersection / (area_A + area_B - intersection), and is 0.0 when that
\* union is zero.
C4_IouGuardedAtZeroUnion ==
    \A k \in 1..Len(iou) :
        LET a == iou_call[1]
            b == iou_call[2][k]
            inter == RefIntersection(a, b)
            union == Cardinality(Cells(a)) + Cardinality(Cells(b)) - inter
        IN  /\ iou[k][2] # 0
            /\ IF union = 0
               THEN iou[k][1] = 0
               ELSE iou[k][1] * union = inter * iou[k][2]

IsMaxScore(i) == \A j \in 1..Len(scores) : scores[j] <= scores[i]

\* C8: keep holds no index twice, starts with an index of maximum score and
\* is in non-increasing score order.
C8_KeepDistinctScoreOrdered ==
    /\ \A a, b \in 1..Len(keep) : a # b => keep[a] # keep[b]
    /\ keep # <<>> => IsMaxScore(keep[1])
    /\ \A a, b \in 1..Len(keep) : a < b => scores[keep[a]] >= scores[keep[b]]
    /\ (nms_pc = "done" /\ boxes # <<>>) => keep # <<>>

\* a return whose order is the score order and not the input order
C8_Witness ==
    /\ nms_pc = "done"
    /\ Len(keep) = 3
    /\ keep[1] > keep[2]
    /\ scores[keep[1]] > scores[keep[2]]

\* C9: every pass of the loop adds exactly one index to keep and either
\* leaves the loop or strictly shrinks indices; keep never holds more than n
\* indices; and the function returns.
C9_Terminates ==
    /\ [][(nms_pc = "loop" /\ keep' # keep) =>
             /\ Len(keep') = Len(keep) + 1
             /\ (nms_pc' = "done" \/ Len(indices') < Len(indices))]_vars
    /\ [](Len(keep) <= Len(boxes))
    /\ <>(nms_pc = "done")

\* a run over undefined IOU values that has returned
C9_Witness ==
    /\ nms_pc = "done"
    /\ Len(boxes) = 3
    /\ \E k \in 1..Len(iou) : IsNaN(iou[k])

\* --------------------------------------------- reference notions (depth)
\* rows [y1, y2) x columns [x1, x2), as 1-based (row, column) pairs
Region(bb) == ((bb[2] + 1)..bb[4]) \X ((bb[1] + 1)..bb[3])

ValidCells(img, bb) == { e \in Region(bb) : img[e[1]][e[2]] > 0 }

AllInvalid(img, bb) == ValidCells(img, bb) = {}

RECURSIVE CellSum(_, _)
CellSum(img, S) ==
    IF S = {} THEN 0
    ELSE LET e == CHOOSE x \in S : TRUE
         IN  img[e[1]][e[2]] + CellSum(img, S \ {e})

IsZero(q) == q[2] # 0 /\ q[1] = 0

NonNegative(q) == q[2] > 0 /\ q[1] >= 0

\* C5: when every sample of the region is <= 0, calculate_dimensions
\* returns (0, 0, 0) and estimate_roughness returns 0.0: neither raises and
\* neither result is the nan of a mean or a division over nothing.
C5_AllInvalidGivesSentinel ==
    AllInvalid(depth_img, bbox) =>
        /\ dim_result.kind = "return" =>
               \A i \in 1..3 : IsZero(dim_result.value[i])
        /\ rough_result.kind # "none" =>
               /\ rough_result.kind = "return"
               /\ IsZero(rough_result.value)

C5_Witness ==
    /\ AllInvalid(depth_img, bbox)
    /\ Cardinality(Region(bbox)) = 4
    /\ \E e \in Region(bbox) : depth_img[e[1]][e[2]] < 0
    /\ dim_result.kind = "return"
    /\ rough_result.kind = "return"

\* C6: for a well-formed box estimate_roughness yields a result, and the
\* result is >= 0, also when only some samples of the region are valid.
C6_RoughnessDefinedNonNegative ==
    (WellFormed(bbox) /\ rough_result.kind # "none") =>
        /\ rough_result.kind = "return"
        /\ NonNegative(rough_result.value)

\* C7: with a valid sample in a well-formed box, calculate_dimensions
\* returns avg_depth = mean(samples > 0 of the region) * depth_scale,
\* real_width = (x2 - x1) * avg_depth / 600, real_height =
\* (y2 - y1) * avg_depth / 600, all non-negative; the 10 x 10 map of 1000
\* with box (0, 0, 10, 10) gives (10/600, 10/600, 1.0).
C7_DimensionsFromValidMean ==
    (dim_result.kind = "return" /\ WellFormed(bbox) /\ ~AllInvalid(depth_img, bbox)) =>
        LET cells == ValidCells(depth_img, bbox)
            total == CellSum(depth_img, cells)
            n == Cardinality(cells)
            v == dim_result.value
        IN  /\ v[3] = Quot(total * depth_scale[1], n * depth_scale[2])
            /\ v[1] = Quot((bbox[3] - bbox[1]) * total * depth_scale[1],
                           n * depth_scale[2] * 600)
            /\ v[2] = Quot((bbox[4] - bbox[2]) * total * depth_scale[1],
                           n * depth_scale[2] * 600)
            /\ \A i \in 1..3 : NonNegative(v[i])
            /\ (depth_img = UniformMap /\ bbox = <<0, 0, 10, 10>>) =>
                   v = << <<1, 60>>, <<1, 60>>, <<1, 1>> >>

C7_Witness ==
    /\ depth_img = UniformMap
    /\ bbox = <<0, 0, 10, 10>>
    /\ dim_result.kind = "return"
    /\ dim_result.value[3] = <<1, 1>>

\* ------------------------------------------- reference notions (pipeline)
\* the number of loop passes that called the estimators
Passes == Len(calls) \div 2

====
